---- MODULE Spec2Model ----
(***************************************************************************)
(* Model of the Excel MCP employee classification agent.                   *)
(*   agent/employee_agent.py : llm_decide, run_agent                       *)
(*   mcp_server/tools.py     : get_all_employees, update_employee_row      *)
(*   mcp_server/schema.py    : DROPDOWNS                                   *)
(*   utils/backup.py         : create_backup                               *)
(*                                                                         *)
(* Values.  A cell / JSON value is a record tagged by k:                   *)
(*   [k |-> "none"]            None, NaN, JSON null, empty cell            *)
(*   [k |-> "str", s |-> seq]  a string, as a sequence of tokens; the      *)
(*                             token " " is whitespace, others are words   *)
(*   [k |-> "num", n |-> i]    a float with one decimal, in tenths         *)
(*   [k |-> "date", days |-> d] a date cell, d days before today           *)
(*   [k |-> "iso", days |-> d]  that date as an ISO string                 *)
(*   [k |-> "ts", t |-> i]      a timestamp taken at clock value i         *)
(*   [k |-> "missing"]          key absent from the oracle's JSON object   *)
(***************************************************************************)
EXTENDS Integers, Sequences, FiniteSets, TLC

VARIABLES store, backups, now, pc, employees, idx, row_id, stats, data, updates,
          needs_update, calculated_experience, decision, stack, calls,
          result, exit, summary, run, memo, call, procs

vars == <<store, backups, now, pc, employees, idx, row_id, stats, data, updates,
          needs_update, calculated_experience, decision, stack, calls,
          result, exit, summary, run, memo, call, procs>>

\* The variables of one run of the agent: the locals of run_agent and of the
\* llm_decide call in progress.
agentVars == <<pc, employees, idx, row_id, stats, data, updates, needs_update,
               calculated_experience, decision, stack, calls, result, exit,
               summary, run, memo>>

\* ------------------------------------------------------------------ bounds
MaxRows == 2

\* --------------------------------------------------------------- constants
max_retries == 3
BACKUP_ENABLED == TRUE

\* ------------------------------------------------------------------ values
None == [k |-> "none"]
Missing == [k |-> "missing"]
Str(s) == [k |-> "str", s |-> s]
Num(n) == [k |-> "num", n |-> n]
Date(d) == [k |-> "date", days |-> d]
Iso(d) == [k |-> "iso", days |-> d]
Ts(t) == [k |-> "ts", t |-> t]

\* Python truthiness of a value (`if val:`, `not current_dept`).
Truthy(v) ==
  CASE v.k = "none" -> FALSE
    [] v.k = "missing" -> FALSE
    [] v.k = "str" -> v.s # <<>>
    [] v.k = "num" -> v.n # 0
    [] OTHER -> TRUE

\* pd.isna(value)
IsNa(v) == v.k = "none"

\* str(value), as a token sequence.
PyStr(v) ==
  CASE v.k = "str" -> v.s
    [] v.k = "none" -> <<"None">>
    [] v.k = "num" -> <<"<float>">>
    [] OTHER -> <<"<object>">>

RECURSIVE LStrip(_)
LStrip(s) == IF s # <<>> /\ Head(s) = " " THEN LStrip(Tail(s)) ELSE s

RECURSIVE RStrip(_)
RStrip(s) ==
  IF s # <<>> /\ s[Len(s)] = " " THEN RStrip(SubSeq(s, 1, Len(s) - 1)) ELSE s

\* str.strip()
Strip(s) == RStrip(LStrip(s))

\* ------------------------------------------------------------------ schema
DROPDOWNS ==
  [Department |-> {<<"Web">>, <<"AI">>, <<"HR">>, <<"Finance">>, <<"Operations">>},
   Designation |-> {<<"Intern">>, <<"Junior">>, <<"Senior">>, <<"Lead">>},
   Salary_Band |-> {<<"L1">>, <<"L2">>, <<"L3">>},
   Skill_Level |-> {<<"Beginner">>, <<"Intermediate">>, <<"Expert">>},
   Promotion_Eligibility |-> {<<"Yes">>, <<"No">>},
   Is_Processed |-> {<<"Yes">>, <<"No">>}]

\* The three classification columns the agent reconciles.
ClassCols == {"Department", "Designation", "Salary_Band"}

\* The columns of the workbook that the model carries.
Columns ==
  {"Emp_ID", "DOJ", "Experience_Years", "Department", "Designation",
   "Salary_Band", "Skill_Level", "Is_Processed", "AI_Decision_Reason",
   "Confidence_Score", "Last_Processed_On"}

\* ------------------------------------------------------------- record store
\* pd.read_excel: an empty-string cell is read back as NaN.  The data frame
\* has the columns the sheet has.
read_excel(file) ==
  [i \in DOMAIN file |->
     [c \in DOMAIN file[i] |->
        IF file[i][c] = Str(<<>>) THEN None ELSE file[i][c]]]

\* convert_to_json_serializable: NaN -> None, datetime -> isoformat string.
convert_to_json_serializable(value) ==
  CASE IsNa(value) -> None
    [] value.k = "date" -> Iso(value.days)
    [] value.k = "ts" -> [k |-> "isots", t |-> value.t]
    [] OTHER -> value

\* get_all_employees: every row of the workbook, row_id = position (0-based).
get_all_employees(file) ==
  LET df == read_excel(file)
  IN [i \in DOMAIN df |->
        [row_id |-> i - 1,
         data |-> [c \in Columns |-> convert_to_json_serializable(df[i][c])]]]

\* The positions i, i + 1, ... of the rows of df that the filter of line 53
\* keeps: Is_Processed, with NaN taken as "No", is not "Yes"; every row when
\* the sheet has no such column (lines 49-50).
RECURSIVE UnprocessedFrom(_, _)
UnprocessedFrom(df, i) ==
  IF i > Len(df) THEN <<>>
  ELSE LET flag == IF IsNa(df[i]["Is_Processed"]) THEN Str(<<"No">>)
                   ELSE df[i]["Is_Processed"]
           keep == "Is_Processed" \notin DOMAIN df[i] \/ flag # Str(<<"Yes">>)
       IN (IF keep THEN <<i>> ELSE <<>>) \o UnprocessedFrom(df, i + 1)

\* Variant: row_id is the position among the rows that were kept.
get_unprocessed_employees_FilteredPosition(file) ==
  LET df == read_excel(file)
      rows == UnprocessedFrom(df, 1)
  IN [k \in DOMAIN rows |->
        [row_id |-> k - 1,
         data |-> [c \in DOMAIN df[rows[k]] |->
                     convert_to_json_serializable(df[rows[k]][c])]]]

\* get_unprocessed_employees: the rows that are not processed, each with its
\* position in the whole data frame as row_id (df.index.get_loc, line 66).
get_unprocessed_employees(file) ==
  LET df == read_excel(file)
      rows == UnprocessedFrom(df, 1)
  IN [k \in DOMAIN rows |->
        [row_id |-> rows[k] - 1,
         data |-> [c \in DOMAIN df[rows[k]] |->
                     convert_to_json_serializable(df[rows[k]][c])]]]

\* create_backup: copies the workbook to <stem>_<timestamp><suffix>; the
\* timestamp has a resolution of one second.  ok = FALSE is an OSError.
create_backup(file, dir, t, ok) ==
  IF ok
    THEN [n \in (DOMAIN dir) \cup {t} |-> IF n = t THEN file ELSE dir[n]]
    ELSE dir

\* Variant: the validation loop never raises.
ValidUpdates_Off(upd) == TRUE

\* The validation loop of update_employee_row: a non-empty value staged for
\* a dropdown column must be one of the allowed values.
ValidUpdates(upd) ==
  \A col \in DOMAIN upd :
    (col \in DOMAIN DROPDOWNS /\ Truthy(upd[col])
       /\ Strip(PyStr(upd[col])) # <<>>)
      => (upd[col].k = "str" /\ upd[col].s \in DROPDOWNS[col])

\* Variant: the audit fields are set first, the staged values after them.
ApplyUpdates_AuditFirst(row, upd, reason, confidence, t) ==
  [c \in Columns |->
     IF c \in DOMAIN upd /\ Truthy(upd[c]) THEN upd[c]
     ELSE CASE c = "Is_Processed" -> Str(<<"Yes">>)
            [] c = "AI_Decision_Reason" -> reason
            [] c = "Confidence_Score" -> confidence
            [] c = "Last_Processed_On" -> Ts(t)
            [] OTHER -> row[c]]

\* Variant: only the audit fields are set, the staged values are not.
ApplyUpdates_AuditOnly(row, upd, reason, confidence, t) ==
  [c \in Columns |->
     CASE c = "Is_Processed" -> Str(<<"Yes">>)
       [] c = "AI_Decision_Reason" -> reason
       [] c = "Confidence_Score" -> confidence
       [] c = "Last_Processed_On" -> Ts(t)
       [] OTHER -> row[c]]

\* The assignment loop of update_employee_row followed by the audit fields.
ApplyUpdates(row, upd, reason, confidence, t) ==
  [c \in Columns |->
     CASE c = "Is_Processed" -> Str(<<"Yes">>)
       [] c = "AI_Decision_Reason" -> reason
       [] c = "Confidence_Score" -> confidence
       [] c = "Last_Processed_On" -> Ts(t)
       [] OTHER -> IF c \in DOMAIN upd /\ Truthy(upd[c]) THEN upd[c] ELSE row[c]]

\* Variant: a backup that could not be made fails the update.
update_employee_row_NoBackupNoWrite(file, dir, rid, upd, reason, conf, t, bak_ok, save_ok) ==
  LET df == read_excel(file)
  IN IF ~bak_ok \/ rid < 0 \/ rid >= Len(df) \/ ~ValidUpdates(upd) \/ ~save_ok
       THEN [status |-> "error", file |-> file, dir |-> dir]
       ELSE [status |-> "updated",
             file |-> [df EXCEPT ![rid + 1] =
                         ApplyUpdates(df[rid + 1], upd, reason, conf, t)],
             dir |-> create_backup(file, dir, t, bak_ok)]

\* Variant: the staged values and the audit fields are assigned to the whole
\* column (df[col] = val), not to the row at row_id.
update_employee_row_WholeColumn(file, dir, rid, upd, reason, conf, t, bak_ok, save_ok) ==
  LET dir2 == IF BACKUP_ENABLED THEN create_backup(file, dir, t, bak_ok)
              ELSE dir
      df == read_excel(file)
  IN IF rid < 0 \/ rid >= Len(df) \/ ~ValidUpdates(upd) \/ ~save_ok
       THEN [status |-> "error", file |-> file, dir |-> dir2]
       ELSE [status |-> "updated",
             file |-> [i \in DOMAIN df |->
                         ApplyUpdates(df[i], upd, reason, conf, t)],
             dir |-> dir2]

\* Variant: row_id is not checked; df.iloc takes a negative row_id from the
\* end and raises IndexError on one that is too large.
update_employee_row_NoRangeCheck(file, dir, rid, upd, reason, conf, t, bak_ok, save_ok) ==
  LET dir2 == IF BACKUP_ENABLED THEN create_backup(file, dir, t, bak_ok)
              ELSE dir
      df == read_excel(file)
      at == IF rid < 0 THEN Len(df) + rid + 1 ELSE rid + 1
  IN IF at \notin DOMAIN df \/ ~ValidUpdates(upd) \/ ~save_ok
       THEN [status |-> "error", file |-> file, dir |-> dir2]
       ELSE [status |-> "updated",
             file |-> [df EXCEPT ![at] =
                         ApplyUpdates(df[at], upd, reason, conf, t)],
             dir |-> dir2]

\* Lines 161-162: a sheet without the Is_Processed column gets it, "No" on
\* every row (the other columns ensured there are in every sheet modelled).
EnsureColumns(df) ==
  [i \in DOMAIN df |->
     [c \in (DOMAIN df[i]) \cup {"Is_Processed"} |->
        IF c \in DOMAIN df[i] THEN df[i][c] ELSE Str(<<"No">>)]]

\* update_employee_row: backup, read, check row_id, validate, mutate one row,
\* rewrite the workbook.  Returns the tool's status and the files afterwards.
update_employee_row(file, dir, rid, upd, reason, conf, t, bak_ok, save_ok) ==
  LET dir2 == IF BACKUP_ENABLED THEN create_backup(file, dir, t, bak_ok)
              ELSE dir
      df == read_excel(file)
      full == EnsureColumns(df)
  IN IF rid < 0 \/ rid >= Len(df)
       THEN [status |-> "error", file |-> file, dir |-> dir2]
     ELSE IF ~ValidUpdates(upd)
       THEN [status |-> "error", file |-> file, dir |-> dir2]
     ELSE IF ~save_ok
       THEN [status |-> "error", file |-> file, dir |-> dir2]
     ELSE [status |-> "updated",
           file |-> [full EXCEPT ![rid + 1] =
                       ApplyUpdates(full[rid + 1], upd, reason, conf, t)],
           dir |-> dir2]

\* -------------------------------------------------------- derived experience
\* Variant: the tenths are cut off, not rounded.
Experience_Truncate(days) == (40 * days) \div 1461

\* round(days / 365.25, 1) in tenths of a year: days * 40 / 1461 is never
\* exactly halfway between two integers, so rounding to nearest is exact.
Experience(days) == (80 * days + 1461) \div 2922

\* Variant: the experience is staged even when none could be computed.
StageExperience_Always(calc, current_experience) == TRUE

\* Variant: the experience is staged only when it differs from the stored one.
StageExperience_IfChanged(calc, current_experience) ==
  calc # None /\ calc # current_experience

\* Lines 222-229: a computed experience is staged whatever the stored one is.
StageExperience(calc, current_experience) == calc # None

\* pd.to_datetime(doj).date() and the isinstance chain of run_agent: the date
\* for an ISO string, "raise" for an unparseable string, None otherwise.
ParseDoj(doj) ==
  CASE doj.k = "iso" -> Date(doj.days)
    [] doj.k = "str" -> [k |-> "raise"]
    [] OTHER -> None

\* The date update_experience_from_doj takes from a DOJ cell (lines 277-293):
\* None for an empty cell, "raise" for text that pd.to_datetime rejects.
CellDate(doj) ==
  CASE IsNa(doj) -> None
    [] doj.k = "str" -> ParseDoj(doj)
    [] doj.k = "date" -> doj
    [] OTHER -> None

\* update_experience_from_doj: backup, read, recompute Experience_Years of
\* every row whose DOJ is a date, rewrite the workbook.
update_experience_from_doj(file, dir, t, bak_ok, save_ok) ==
  LET dir2 == IF BACKUP_ENABLED THEN create_backup(file, dir, t, bak_ok)
              ELSE dir
      df == read_excel(file)
      exp(row) == IF CellDate(row["DOJ"]).k = "date"
                    THEN Num(Experience(CellDate(row["DOJ"]).days))
                    ELSE row["Experience_Years"]
  IN IF ~save_ok
       THEN [status |-> "error", file |-> file, dir |-> dir2]
       ELSE [status |-> "success",
             file |-> [i \in DOMAIN df |->
                         [df[i] EXCEPT !["Experience_Years"] = exp(df[i])]],
             dir |-> dir2]

\* reset_processed_flag_for_reprocessing: backup, read, Is_Processed = "No"
\* on every row, rewrite the workbook.
reset_processed_flag_for_reprocessing(file, dir, t, bak_ok, save_ok) ==
  LET dir2 == IF BACKUP_ENABLED THEN create_backup(file, dir, t, bak_ok)
              ELSE dir
      df == read_excel(file)
  IN IF ~save_ok
       THEN [status |-> "error", file |-> file, dir |-> dir2]
       ELSE [status |-> "success",
             file |-> [i \in DOMAIN df |->
                         [df[i] EXCEPT !["Is_Processed"] = Str(<<"No">>)]],
             dir |-> dir2]

\* ------------------------------------------------------------------ oracle
\* dict.get(key, default) on the oracle's JSON object.
Get(d, key, default) == IF d[key] = Missing THEN default ELSE d[key]

\* A JSON value that is not an object (json.loads succeeds, .get does not).
NonDict == [k |-> "list"]

\* The oracle's JSON object.
Decision(d, g, b, r, c) ==
  [Department |-> d, Designation |-> g, Salary_Band |-> b,
   Reason |-> r, Confidence |-> c]

\* Responses of client.chat.completions.create that parse as a JSON object:
\* complete and valid ones, and ones with an untrimmed, empty, missing, null,
\* lower-case or out-of-enumeration classification value, or with a missing,
\* null or out-of-range Reason / Confidence.
Decisions ==
  {Decision(Str(<<"Web">>), Str(<<"Junior">>), Str(<<"L1">>),
            Str(<<"entry level">>), Num(9)),
   Decision(Str(<<"Web">>), Str(<<"Senior">>), Str(<<"L2">>),
            Str(<<"8 yrs exp">>), Num(9)),
   Decision(Str(<<"Marketing">>), Str(<<"Senior">>), Str(<<"L2">>),
            Str(<<"8 yrs exp">>), Num(9)),
   Decision(Missing, Str(<<"Junior">>), Str(<<" ">>),
            Str(<<"entry level">>), Num(9)),
   Decision(Str(<<" ", "Web", " ">>), None, Str(<<"L1">>),
            Str(<<"entry level">>), Num(9)),
   Decision(Str(<<>>), Str(<<"junior">>), Str(<<"L1">>), None, Num(15)),
   Decision(Str(<<"Web">>), Str(<<"Senior">>), Str(<<"L2">>), Missing, Missing),
   Decision(Str(<<"Web">>), Str(<<"Junior">>), Str(<<"L1">>), Str(<<>>), None)}

\* A frame of llm_decide: its retry_count and where it stands.
\*   "create"      about to call client.chat.completions.create (line 93)
\*   "json_retry"  inside `except json.JSONDecodeError`, in the recursive
\*                 call of line 123 (still inside the outer try)
\*   "outer_retry" inside `except Exception`, in the recursive call of
\*                 line 129
Frame(n, at) == [retry_count |-> n, at |-> at]

Top(stk) == stk[Len(stk)]
Pop(stk) == SubSeq(stk, 1, Len(stk) - 1)
SetTop(stk, at) == [stk EXCEPT ![Len(stk)].at = at]

RECURSIVE OuterExcept(_), Unwind(_)

\* `except Exception` of the top frame (lines 125-131): retry if
\* retry_count < max_retries, else re-raise to the caller.
OuterExcept(stk) ==
  IF Top(stk).retry_count < max_retries
    THEN Append(SetTop(stk, "outer_retry"),
                Frame(Top(stk).retry_count + 1, "create"))
    ELSE Unwind(Pop(stk))

\* An exception leaves a frame and arrives at the call site of its caller:
\* line 123 is inside the outer try, so the caller's `except Exception`
\* catches it; line 129 is inside that handler, so it propagates.
Unwind(stk) ==
  IF stk = <<>> THEN <<>>
  ELSE IF Top(stk).at = "json_retry" THEN OuterExcept(stk)
  ELSE Unwind(Pop(stk))

\* Variant: a response that is not JSON is raised to the caller at once.
InnerExcept_NoRetry(stk) == Unwind(Pop(stk))

\* `except json.JSONDecodeError` of the top frame (lines 117-124).
InnerExcept(stk) ==
  IF Top(stk).retry_count < max_retries
    THEN Append(SetTop(stk, "json_retry"),
                Frame(Top(stk).retry_count + 1, "create"))
    ELSE OuterExcept(stk)

\* ---------------------------------------------------------- reconciliation
Put(f, key, v) == [c \in (DOMAIN f) \cup {key} |-> IF c = key THEN v ELSE f[c]]

\* dept / designation / salary_band: str(decision.get(col, "")).strip()
DecisionValue(d, col) == Strip(PyStr(Get(d, col, Str(<<>>))))

\* Variant: the three emptiness tests joined by `and`.
IsFill_And(cur, dec) ==
  (~Truthy(cur) /\ IsNa(cur) /\ Strip(PyStr(cur)) = <<>>) /\ dec # <<>>

\* First branch of the per-field check: the current value is empty and the
\* decision has a value.
IsFill(cur, dec) ==
  (~Truthy(cur) \/ IsNa(cur) \/ Strip(PyStr(cur)) = <<>>) /\ dec # <<>>

\* Variant: the current value is compared without trimming it.
IsOverride_NoTrim(cur, dec) ==
  Truthy(cur) /\ dec # <<>> /\ PyStr(cur) # Strip(dec)

\* Variant: the comparison is == instead of !=.
IsOverride_Eq(cur, dec) ==
  Truthy(cur) /\ dec # <<>> /\ Strip(PyStr(cur)) = Strip(dec)

\* The elif branch: both have a value and they differ after trimming.
IsOverride(cur, dec) ==
  Truthy(cur) /\ dec # <<>> /\ Strip(PyStr(cur)) # Strip(dec)

\* Is the column staged for this record and decision.
Staged(rec, d, col) ==
  LET dec == DecisionValue(d, col)
  IN IsFill(rec[col], dec) \/ IsOverride(rec[col], dec)

\* The updates dict after the three per-field checks.
Reconcile(rec, upd, d) ==
  LET cols == {col \in ClassCols : Staged(rec, d, col)}
  IN [c \in (DOMAIN upd) \cup cols |->
        IF c \in cols THEN Str(DecisionValue(d, c)) ELSE upd[c]]

\* Lines 285-287: the columns the empty-column scan passes over.
ScanSkipped ==
  {"Is_Processed", "AI_Decision_Reason", "Confidence_Score",
   "Last_Processed_On", "Processing_Version", "Rule_Applied", "Emp_ID", "Name",
   "DOJ", "Role", "Status"}

\* Lines 290-296: the columns the scan logs as empty with no value to fill.
ScanLogged(rec, upd) ==
  {c \in Columns \ ScanSkipped :
     (IsNa(rec[c]) \/ Strip(PyStr(rec[c])) = <<>>) /\ c \notin DOMAIN upd}

\* Variant: the scan stages an empty value for every column it logs.
ScanEmptyColumns_Fill(rec, upd) ==
  [c \in (DOMAIN upd) \cup ScanLogged(rec, upd) |->
     IF c \in DOMAIN upd THEN upd[c] ELSE Str(<<>>)]

\* Lines 283-296: the updates dict after the scan of all columns, which only
\* logs (logger.debug) and assigns nothing.
ScanEmptyColumns(rec, upd) == upd

\* float(decision.get("Confidence", 0.0)): raises on None and on text.
FloatOf(v) == IF v.k = "num" THEN v ELSE [k |-> "raise"]

\* call is the last tool call made by a client other than the agent's row
\* loop: the tool, its arguments, whether create_backup returned a path, and
\* the status returned.
NoCall ==
  [tool |-> "none", rid |-> -1, upd |-> <<>>, backup |-> FALSE,
   status |-> "none"]

\* ------------------------------------------------------------ initial store
Row(id, doj, exp, dept, desig, band, processed) ==
  [Emp_ID |-> Num(id), DOJ |-> doj, Experience_Years |-> exp,
   Department |-> dept, Designation |-> desig, Salary_Band |-> band,
   Skill_Level |-> None, Is_Processed |-> processed,
   AI_Decision_Reason |-> None, Confidence_Score |-> None,
   Last_Processed_On |-> None]

\* Rows a workbook can hold before a run.
RowChoices(id) ==
  <<Row(id, Date(2556), None, None, Str(<<"Junior">>), None, None),
    Row(id, None, Num(70), Str(<<"Web">>), Str(<<" ", "Junior">>),
        Str(<<"L1">>), Str(<<"Yes">>)),
    Row(id, Date(2556), Num(70), Str(<<"Web">>), Str(<<"Junior">>),
        Str(<<"L1">>), Str(<<"Yes">>)),
    Row(id, Str(<<"soon">>), None, Str(<<" ">>), Str(<<"Junior">>),
        Str(<<"L1">>), Str(<<"No">>)),
    Row(id, Date(10), Num(50), Str(<<"Marketing">>), Str(<<"Senior">>),
        Str(<<"L2">>), Str(<<"No">>))>>

\* The workbooks of at most MaxRows rows, up to the order of their rows (the
\* agent treats every position alike).
Stores ==
  UNION {{[i \in 1..n |-> RowChoices(i)[t[i]]] :
            t \in {u \in [1..n -> 1..Len(RowChoices(0))] :
                     \A i \in 1..n, j \in 1..n : i < j => u[i] <= u[j]}} :
         n \in 0..MaxRows}

Init ==
  /\ store \in Stores
  /\ backups = <<>>
  /\ now = 1
  /\ pc = "fetch"
  /\ employees = <<>>
  /\ idx = 0
  /\ row_id = -1
  /\ stats = [total |-> 0, success |-> 0, failed |-> 0, skipped |-> 0]
  /\ data = None
  /\ updates = <<>>
  /\ needs_update = FALSE
  /\ calculated_experience = None
  /\ decision = None
  /\ stack = <<>>
  /\ calls = 0
  /\ result = "none"
  /\ exit = "running"
  /\ summary = None
  /\ run = 1
  /\ memo = <<>>
  /\ call = NoCall
  /\ procs = <<>>

\* ------------------------------------------------------------------ actions
\* Which counter a row added one to.
Outcome(before, after) ==
  IF after.success # before.success THEN "success"
  ELSE IF after.failed # before.failed THEN "failed"
  ELSE "skipped"

\* memo is the record of the first run, kept when two runs are compared (it
\* is empty otherwise): for each row the decision that llm_decide returned
\* and the counter the row was added to.
Remember(m, r, i, field, v) ==
  IF i \notin DOMAIN m \/ r # 1 THEN m ELSE [m EXCEPT ![i][field] = v]

\* Variant: a failed row ends the loop and the run.
NextRow_Abort(st) ==
  /\ stats' = st
  /\ memo' = Remember(memo, run, idx, "outcome", Outcome(stats, st))
  /\ IF st.failed # stats.failed
       THEN idx' = idx /\ pc' = "summary" /\ exit' = "raise"
     ELSE IF idx < Len(employees)
       THEN idx' = idx + 1 /\ pc' = "derive" /\ exit' = exit
       ELSE idx' = idx /\ pc' = "summary" /\ exit' = "return"

\* Variant: a row that failed is taken up again.
NextRow_Retry(st) ==
  /\ stats' = st
  /\ memo' = Remember(memo, run, idx, "outcome", Outcome(stats, st))
  /\ IF st.failed # stats.failed
       THEN idx' = idx /\ pc' = "derive" /\ exit' = exit
     ELSE IF idx < Len(employees)
       THEN idx' = idx + 1 /\ pc' = "derive" /\ exit' = exit
       ELSE idx' = idx /\ pc' = "summary" /\ exit' = "return"

\* Variant: a skipped row is not counted.
NextRow_SkipUncounted(st) ==
  /\ stats' = IF st.skipped # stats.skipped THEN stats ELSE st
  /\ memo' = Remember(memo, run, idx, "outcome", Outcome(stats, st))
  /\ IF idx < Len(employees)
       THEN idx' = idx + 1 /\ pc' = "derive" /\ exit' = exit
       ELSE idx' = idx /\ pc' = "summary" /\ exit' = "return"

\* End of one iteration of the row loop with the given counters.
NextRow(st) ==
  /\ stats' = st
  /\ memo' = Remember(memo, run, idx, "outcome", Outcome(stats, st))
  /\ IF idx < Len(employees)
       THEN idx' = idx + 1 /\ pc' = "derive" /\ exit' = exit
       ELSE idx' = idx /\ pc' = "summary" /\ exit' = "return"

\* session.call_tool("fetch_all_employees") and the parsing of its result.
\*   "ok"         the tool returned the rows
\*   "tool_error" the tool raised: result.isError, employees = []
\*   "raise"      the call itself (or json.loads of its text) raised
Fetch ==
  /\ pc = "fetch"
  /\ \E outcome \in {"ok", "tool_error", "raise"} :
       LET emps == IF outcome = "ok" THEN get_all_employees(store) ELSE <<>>
       IN /\ employees' = emps
          /\ stats' = IF outcome = "raise" THEN stats
                      ELSE [stats EXCEPT !.total = Len(emps)]
          /\ IF outcome = "raise"
               THEN pc' = "summary" /\ exit' = "raise" /\ idx' = idx
             ELSE IF Len(emps) = 0
               THEN pc' = "summary" /\ exit' = "return" /\ idx' = idx
             ELSE pc' = "derive" /\ exit' = exit /\ idx' = 1
  /\ UNCHANGED <<store, backups, now, row_id, data, updates, needs_update,
                 calculated_experience, decision, stack, calls, result,
                 summary, run, memo, call,
                 procs>>

\* Lines 193-238: experience from DOJ, then the call of llm_decide(data).
Derive ==
  /\ pc = "derive"
  /\ LET rec == employees[idx].data
         doj == rec["DOJ"]
         current_experience == rec["Experience_Years"]
         doj_date == IF Truthy(doj) THEN ParseDoj(doj) ELSE None
         calc == IF doj_date.k = "date"
                   THEN Num(Experience(doj_date.days)) ELSE None
         experience_for_decision ==
           IF calc # None THEN calc ELSE current_experience
     IN /\ calculated_experience' = calc
        /\ updates' = IF StageExperience(calc, current_experience)
                        THEN Put(<<>>, "Experience_Years", calc) ELSE <<>>
        /\ needs_update' = StageExperience(calc, current_experience)
        /\ data' = IF experience_for_decision # None
                     THEN [rec EXCEPT !["Experience_Years"] =
                             experience_for_decision]
                     ELSE rec
  /\ row_id' = employees[idx].row_id
  /\ stack' = <<Frame(0, "create")>>
  /\ calls' = 0
  /\ decision' = None
  /\ result' = "none"
  /\ pc' = "decide"
  /\ UNCHANGED <<store, backups, now, employees, idx, stats, exit, summary,
                 run, memo, call,
                 procs>>

\* One call of client.chat.completions.create by the innermost llm_decide
\* frame (line 93), with everything llm_decide does until its next call, its
\* raise out of the outermost frame, or its return.  calls counts the calls
\* made so far by the llm_decide call of the current row; it is cleared when
\* that call returns.
OracleCall ==
  /\ pc = "decide"
  /\ stack # <<>>
  /\ Top(stack).at = "create"
  /\ \/ \* the call raises (transport failure)
        /\ stack' = OuterExcept(stack)
        /\ IF stack' = <<>>
             THEN NextRow([stats EXCEPT !.failed = @ + 1])
             ELSE UNCHANGED <<pc, idx, stats, exit, memo>>
     \/ \* the content is not JSON
        /\ stack' = InnerExcept(stack)
        /\ IF stack' = <<>>
             THEN NextRow([stats EXCEPT !.failed = @ + 1])
             ELSE UNCHANGED <<pc, idx, stats, exit, memo>>
     \/ \* the content is well-formed JSON: json.loads succeeds and every
        \* frame returns its result (lines 114-116, 123, 129)
        /\ stack' = <<>>
        /\ pc' = "loads"
        /\ UNCHANGED <<idx, stats, exit, memo>>
  /\ calls' = IF pc' = "loads" THEN 0 ELSE calls + 1
  /\ UNCHANGED <<store, backups, now, employees, row_id, data, updates,
                 needs_update, calculated_experience, decision, result,
                 summary, run, call,
                 procs>>

\* What the oracle may answer for the current row: any JSON value, or, when
\* two runs are compared and it answered for this row in the first one, the
\* same value again.
Answers ==
  IF idx \in DOMAIN memo /\ run # 1 /\ memo[idx].decision # None
    THEN {memo[idx].decision}
    ELSE Decisions \cup {NonDict}

\* Line 241: decision = llm_decide(data).  The JSON value that the last
\* response held is drawn here.
LlmReturn ==
  /\ pc = "loads"
  /\ \E d \in Answers :
       /\ decision' = d
       /\ memo' = Remember(memo, run, idx, "decision", d)
  /\ pc' = "reconcile"
  /\ UNCHANGED <<store, backups, now, employees, idx, row_id, stats, data,
                 updates, needs_update, calculated_experience, stack, calls,
                 result, exit, summary, run, call,
                 procs>>

\* Lines 243-302: the per-field checks and the skip test.
ReconcileRow ==
  /\ pc = "reconcile"
  /\ IF decision = NonDict
       THEN \* decision.get raises AttributeError: caught at line 320
            /\ UNCHANGED <<updates, needs_update>>
            /\ NextRow([stats EXCEPT !.failed = @ + 1])
       ELSE LET upd == ScanEmptyColumns(data,
                         Reconcile(data, updates, decision))
                need == needs_update
                          \/ \E col \in ClassCols : Staged(data, decision, col)
            IN /\ updates' = upd
               /\ needs_update' = need
               /\ IF ~need /\ DOMAIN upd = {}
                    THEN NextRow([stats EXCEPT !.skipped = @ + 1])
                    ELSE pc' = "write" /\ UNCHANGED <<idx, stats, exit, memo>>
  /\ UNCHANGED <<store, backups, now, employees, row_id, data,
                 calculated_experience, decision, stack, calls, result,
                 summary, run, call,
                 procs>>

\* The seconds that pass from one call of a mutating tool to the next: the
\* clock has moved on by then.
Ticks == {1}

\* Lines 305-319: session.call_tool("apply_employee_update", ...), the next
\* call of a mutating tool coming one of the given numbers of seconds later.
WriteIn(ticks) ==
  /\ pc = "write"
  /\ LET reason == Str(PyStr(Get(decision, "Reason", Str(<<>>))))
         confidence == FloatOf(Get(decision, "Confidence", Num(0)))
     IN IF confidence.k = "raise"
          THEN \* float() raises before the tool is called
               /\ result' = "none"
               /\ UNCHANGED <<store, backups, now>>
               /\ NextRow([stats EXCEPT !.failed = @ + 1])
          ELSE \E backup_ok \in {TRUE}, save_ok \in BOOLEAN, tick \in ticks :
                 LET r == update_employee_row(store, backups, row_id,
                            updates, reason, confidence, now, backup_ok,
                            save_ok)
                 IN /\ store' = r.file
                    /\ backups' = r.dir
                    /\ now' = now + tick
                    /\ result' = r.status
                    /\ IF r.status = "error"
                         THEN NextRow([stats EXCEPT !.failed = @ + 1])
                         ELSE NextRow([stats EXCEPT !.success = @ + 1])
  /\ UNCHANGED <<employees, row_id, data, updates, needs_update,
                 calculated_experience, decision, stack, calls, summary,
                 run, call,
                 procs>>

\* The write of a row when at least a second passes between two writes.
Write == WriteIn(Ticks)

\* Variant: a fatal error leaves run_agent without the summary being logged.
Summarize_NotAfterError ==
  /\ pc = "summary"
  /\ summary' = IF exit = "raise" THEN summary ELSE stats
  /\ pc' = "done"
  /\ UNCHANGED <<store, backups, now, employees, idx, row_id, stats, data,
                 updates, needs_update, calculated_experience, decision,
                 stack, calls, result, exit, run, memo, call,
                 procs>>

\* The finally block: the summary is logged, then run_agent returns or
\* re-raises.
Summarize ==
  /\ pc = "summary"
  /\ summary' = stats
  /\ pc' = "done"
  /\ UNCHANGED <<store, backups, now, employees, idx, row_id, stats, data,
                 updates, needs_update, calculated_experience, decision,
                 stack, calls, result, exit, run, memo, call,
                 procs>>

Next == Fetch \/ Derive \/ OracleCall \/ LlmReturn \/ ReconcileRow \/ Write \/ Summarize

Spec == Init /\ [][Next]_vars

\* The agent is a sequential program that keeps running until it returns.
FairSpec == Spec /\ WF_vars(Next)

\* ------------------------------------------------------------- a fast run
\* A run in which the oracle may answer within the second of the previous
\* write: two writes, and their backups, can carry the same timestamp.
WriteWithinSecond == WriteIn({0, 1})

NextFast ==
  \/ Fetch \/ Derive \/ OracleCall \/ LlmReturn \/ ReconcileRow
  \/ WriteWithinSecond \/ Summarize

FastSpec == Init /\ [][NextFast]_vars

\* --------------------------------------------------------------- tool calls
\* The tools of the server called by an MCP client, one call after the
\* other; MaxClock is the time of the last call.
MaxClock == 2

\* The updates a client passes to apply_employee_update: a valid
\* classification with a status it tries to take back, an invalid
\* classification, a zero experience.
ToolUpdates ==
  {[Department |-> Str(<<"AI">>), Is_Processed |-> Str(<<"No">>)],
   [Designation |-> Str(<<"Manager">>)],
   [Experience_Years |-> Num(0)]}

\* The workbooks the tools are called on: rows not yet processed with a join
\* date, rows already processed, and rows with an unparseable join date.
ToolStores ==
  {s \in Stores :
     \A i \in DOMAIN s :
       s[i] \in {RowChoices(i)[1], RowChoices(i)[3], RowChoices(i)[4]}}

ToolInit ==
  /\ store \in ToolStores
  /\ backups = <<>>
  /\ now = 1
  /\ pc = "done"
  /\ employees = <<>>
  /\ idx = 0
  /\ row_id = -1
  /\ stats = [total |-> 0, success |-> 0, failed |-> 0, skipped |-> 0]
  /\ data = None
  /\ updates = <<>>
  /\ needs_update = FALSE
  /\ calculated_experience = None
  /\ decision = None
  /\ stack = <<>>
  /\ calls = 0
  /\ result = "none"
  /\ exit = "return"
  /\ summary = stats
  /\ run = 1
  /\ memo = <<>>
  /\ call = NoCall
  /\ procs = <<>>

\* The tool apply_employee_update (server.py 34-49) called with any row_id and
\* updates; the backup or the save may fail.
ApplyEmployeeUpdate ==
  /\ now <= MaxClock
  /\ \E rid \in -1..Len(store), upd \in ToolUpdates, bak_ok \in BOOLEAN,
        save_ok \in BOOLEAN, tick \in Ticks :
       LET r == update_employee_row(store, backups, rid, upd,
                  Str(<<"manual">>), Num(5), now, bak_ok, save_ok)
       IN /\ store' = r.file
          /\ backups' = r.dir
          /\ now' = now + tick
          /\ call' = [tool |-> "apply_employee_update", rid |-> rid,
                      upd |-> upd, backup |-> bak_ok, status |-> r.status]
  /\ UNCHANGED <<agentVars, procs>>

\* The tool update_experience (server.py 53-59).
UpdateExperience ==
  /\ now <= MaxClock
  /\ \E bak_ok \in BOOLEAN, save_ok \in BOOLEAN, tick \in Ticks :
       LET r == update_experience_from_doj(store, backups, now, bak_ok,
                  save_ok)
       IN /\ store' = r.file
          /\ backups' = r.dir
          /\ now' = now + tick
          /\ call' = [tool |-> "update_experience", rid |-> -1,
                      upd |-> <<>>, backup |-> bak_ok, status |-> r.status]
  /\ UNCHANGED <<agentVars, procs>>

\* The tool reset_processed_flag (server.py 63-69).
ResetProcessedFlag ==
  /\ now <= MaxClock
  /\ \E bak_ok \in BOOLEAN, save_ok \in BOOLEAN, tick \in Ticks :
       LET r == reset_processed_flag_for_reprocessing(store, backups, now,
                  bak_ok, save_ok)
       IN /\ store' = r.file
          /\ backups' = r.dir
          /\ now' = now + tick
          /\ call' = [tool |-> "reset_processed_flag", rid |-> -1,
                      upd |-> <<>>, backup |-> bak_ok, status |-> r.status]
  /\ UNCHANGED <<agentVars, procs>>

NextTool == ApplyEmployeeUpdate \/ UpdateExperience \/ ResetProcessedFlag

ToolSpec == ToolInit /\ [][NextTool]_vars

\* ------------------------------------------------- a run on a shrinking sheet
\* While the agent runs, the last row of the sheet is deleted by someone else
\* (the workbook is an ordinary file): a row_id of the fetch can then be past
\* the end of the sheet when its write is made (the case of lines 155-158).
\* The agent reads the sheet only in its writes, so a deletion at any moment
\* between two writes is a deletion at the start of the iteration.
RemoveLastRow ==
  /\ pc = "derive"
  /\ store # <<>>
  /\ store' = SubSeq(store, 1, Len(store) - 1)
  /\ UNCHANGED <<backups, now, agentVars, call, procs>>

NextShrink ==
  \/ Fetch \/ Derive \/ OracleCall \/ LlmReturn \/ ReconcileRow \/ Write
  \/ Summarize \/ RemoveLastRow

\* The run starts on one of the workbooks of ToolStores.
ShrinkInit == Init /\ store \in ToolStores

ShrinkSpec == ShrinkInit /\ [][NextShrink]_vars

\* ------------------------------------------------- fetch, then one update
\* A client of the server calls fetch_unprocessed and then
\* apply_employee_update for one of the rows returned, the workbook being as
\* it was at the fetch; then it fetches again.  The workbooks are those of
\* ToolStores and the same sheets without the Is_Processed column.
WithoutColumn(file, col) ==
  [i \in DOMAIN file |-> [c \in (DOMAIN file[i]) \ {col} |-> file[i][c]]]

FetchStores ==
  ToolStores \cup {WithoutColumn(s, "Is_Processed") : s \in ToolStores}

FetchInit ==
  /\ store \in FetchStores
  /\ backups = <<>>
  /\ now = 1
  /\ pc = "fetch"
  /\ employees = <<>>
  /\ idx = 0
  /\ row_id = -1
  /\ stats = [total |-> 0, success |-> 0, failed |-> 0, skipped |-> 0]
  /\ data = None
  /\ updates = <<>>
  /\ needs_update = FALSE
  /\ calculated_experience = None
  /\ decision = None
  /\ stack = <<>>
  /\ calls = 0
  /\ result = "none"
  /\ exit = "running"
  /\ summary = None
  /\ run = 1
  /\ memo = <<>>
  /\ call = NoCall
  /\ procs = <<>>

\* The tool fetch_unprocessed (server.py 14-19).
FetchUnprocessed ==
  /\ pc = "fetch"
  /\ now <= MaxClock
  /\ employees' = get_unprocessed_employees(store)
  /\ idx' = 0
  /\ pc' = "write"
  /\ UNCHANGED <<store, backups, now, row_id, stats, data, updates,
                 needs_update, calculated_experience, decision, stack, calls,
                 result, exit, summary, run, memo, call, procs>>

\* The tool apply_employee_update called with the row_id of one of the rows
\* fetched; idx is the place of that row in the result of the fetch.
ApplyFetched ==
  /\ pc = "write"
  /\ \E k \in DOMAIN employees, upd \in ToolUpdates, save_ok \in BOOLEAN,
        tick \in Ticks :
       LET rid == employees[k].row_id
           r == update_employee_row(store, backups, rid, upd,
                  Str(<<"manual">>), Num(5), now, TRUE, save_ok)
       IN /\ idx' = k
          /\ store' = r.file
          /\ backups' = r.dir
          /\ now' = now + tick
          /\ call' = [tool |-> "apply_employee_update", rid |-> rid,
                      upd |-> upd, backup |-> TRUE, status |-> r.status]
  /\ pc' = "fetch"
  /\ UNCHANGED <<employees, row_id, stats, data, updates, needs_update,
                 calculated_experience, decision, stack, calls, result, exit,
                 summary, run, memo, procs>>

NextFetch == FetchUnprocessed \/ ApplyFetched

FetchSpec == FetchInit /\ [][NextFetch]_vars

\* ------------------------------------------------------------ two writers
\* Two server processes (each agent or client starts its own, over stdio)
\* run update_employee_row on the same workbook.  A call is two accesses to
\* the file: the read of line 152 (after the backup, followed by the checks
\* and the in-memory assignments of lines 155-194) and the rewrite of line
\* 199.
Writers == {1, 2}

\* What writer w passes: a department, and a reason that names the writer.
WriterUpdates(w) == [Department |-> Str(<<IF w = 1 THEN "AI" ELSE "HR">>)]
WriterReason(w) == Str(<<IF w = 1 THEN "writer 1" ELSE "writer 2">>)

\* A writer that has not called yet.
Idle ==
  [at |-> "idle", rid |-> -1, df |-> <<>>, status |-> "none", stale |-> FALSE]

\* Variant: the rows that are not addressed are written back unprocessed.
MutateRow_ResetOthers(df, rid, upd, reason, conf, t) ==
  [i \in DOMAIN df |->
     IF i = rid + 1 THEN ApplyUpdates(df[i], upd, reason, conf, t)
     ELSE [df[i] EXCEPT !["Is_Processed"] = Str(<<"No">>),
                        !["AI_Decision_Reason"] = None]]

\* Lines 184-194: the data frame after the assignments to the row at row_id.
MutateRow(df, rid, upd, reason, conf, t) ==
  [df EXCEPT ![rid + 1] = ApplyUpdates(df[rid + 1], upd, reason, conf, t)]

RaceInit ==
  /\ store \in Stores
  /\ backups = <<>>
  /\ now = 1
  /\ pc = "done"
  /\ employees = <<>>
  /\ idx = 0
  /\ row_id = -1
  /\ stats = [total |-> 0, success |-> 0, failed |-> 0, skipped |-> 0]
  /\ data = None
  /\ updates = <<>>
  /\ needs_update = FALSE
  /\ calculated_experience = None
  /\ decision = None
  /\ stack = <<>>
  /\ calls = 0
  /\ result = "none"
  /\ exit = "return"
  /\ summary = stats
  /\ run = 1
  /\ memo = <<>>
  /\ call = NoCall
  /\ procs = [w \in Writers |-> Idle]

\* Lines 141-194 of writer w's call: backup, read the whole workbook, check
\* row_id and the values, assign to the row in memory.
WriterRead(w) ==
  /\ procs[w].at = "idle"
  /\ \E rid \in -1..(Len(store) - 1), bak_ok \in BOOLEAN, tick \in Ticks :
       LET df == read_excel(store)
           ok == rid >= 0 /\ rid < Len(df) /\ ValidUpdates(WriterUpdates(w))
       IN /\ backups' = IF BACKUP_ENABLED
                          THEN create_backup(store, backups, now, bak_ok)
                          ELSE backups
          /\ now' = now + tick
          /\ procs' = [procs EXCEPT ![w] =
                         IF ok
                           THEN [at |-> "save", rid |-> rid,
                                 df |-> MutateRow(df, rid, WriterUpdates(w),
                                          WriterReason(w), Num(5), now),
                                 status |-> "none", stale |-> FALSE]
                           ELSE [at |-> "done", rid |-> rid, df |-> <<>>,
                                 status |-> "error", stale |-> FALSE]]
  /\ UNCHANGED <<store, agentVars, call>>

\* Lines 197-209 of writer w's call: the whole workbook is rewritten from
\* the data frame.  A writer that has read and not yet saved now holds a
\* data frame older than the file.
WriterSave(w) ==
  /\ procs[w].at = "save"
  /\ \E save_ok \in BOOLEAN :
       /\ store' = IF save_ok THEN procs[w].df ELSE store
       /\ procs' = [v \in Writers |->
                      IF v = w
                        THEN [procs[v] EXCEPT
                                !.at = "done",
                                !.status = IF save_ok THEN "updated"
                                           ELSE "error"]
                      ELSE IF save_ok /\ procs[v].at = "save"
                        THEN [procs[v] EXCEPT !.stale = TRUE]
                      ELSE procs[v]]
  /\ UNCHANGED <<backups, now, agentVars, call>>

NextRace == \E w \in Writers : WriterRead(w) \/ WriterSave(w)

RaceSpec == RaceInit /\ [][NextRace]_vars

\* ------------------------------------------------------ experience, two ways
\* One record whose join date is any day up to MaxDays days before or after
\* today, or no date; the agent derives its experience (lines 203-232) and a
\* client calls update_experience on the same day.  The days from -730 to
\* 730 are 1461 consecutive numbers of days, one full period of the
\* remainders of days * 40 modulo 1461 that decide the rounding.
MaxDays == 730

DojCells ==
  {Date(d) : d \in (0 - MaxDays)..MaxDays}
    \cup {None, Str(<<>>), Str(<<"soon">>)}

ExperienceInit ==
  /\ \E doj \in DojCells, exp \in {None, Num(70)} :
       store = <<Row(1, doj, exp, Str(<<"Web">>), Str(<<"Junior">>),
                     Str(<<"L1">>), None)>>
  /\ backups = <<>>
  /\ now = 1
  /\ pc = "fetch"
  /\ employees = <<>>
  /\ idx = 0
  /\ row_id = -1
  /\ stats = [total |-> 0, success |-> 0, failed |-> 0, skipped |-> 0]
  /\ data = None
  /\ updates = <<>>
  /\ needs_update = FALSE
  /\ calculated_experience = None
  /\ decision = None
  /\ stack = <<>>
  /\ calls = 0
  /\ result = "none"
  /\ exit = "running"
  /\ summary = None
  /\ run = 1
  /\ memo = <<>>
  /\ call = NoCall
  /\ procs = <<>>

NextExperience == Fetch \/ Derive \/ UpdateExperience

ExperienceSpec == ExperienceInit /\ [][NextExperience]_vars

\* ------------------------------------------------------------- two runs
\* The agent run twice in succession on the same workbook (main.py started
\* again), nothing else touching the workbook in between.
MaxRerunRows == 1

RerunInit ==
  /\ store \in {s \in Stores : Len(s) <= MaxRerunRows}
  /\ backups = <<>>
  /\ now = 1
  /\ pc = "fetch"
  /\ employees = <<>>
  /\ idx = 0
  /\ row_id = -1
  /\ stats = [total |-> 0, success |-> 0, failed |-> 0, skipped |-> 0]
  /\ data = None
  /\ updates = <<>>
  /\ needs_update = FALSE
  /\ calculated_experience = None
  /\ decision = None
  /\ stack = <<>>
  /\ calls = 0
  /\ result = "none"
  /\ exit = "running"
  /\ summary = None
  /\ run = 1
  /\ memo = [i \in 1..Len(store) |-> [decision |-> None, outcome |-> "none"]]
  /\ call = NoCall
  /\ procs = <<>>

\* run_agent is entered a second time: its locals start afresh (lines
\* 146-152), the workbook and the backups are as the first run left them.
Rerun ==
  /\ pc = "done"
  /\ run = 1
  /\ run' = 2
  /\ pc' = "fetch"
  /\ employees' = <<>>
  /\ idx' = 0
  /\ row_id' = -1
  /\ stats' = [total |-> 0, success |-> 0, failed |-> 0, skipped |-> 0]
  /\ data' = None
  /\ updates' = <<>>
  /\ needs_update' = FALSE
  /\ calculated_experience' = None
  /\ decision' = None
  /\ stack' = <<>>
  /\ calls' = 0
  /\ result' = "none"
  /\ exit' = "running"
  /\ summary' = None
  /\ UNCHANGED <<store, backups, now, memo, call,
                 procs>>

NextRerun ==
  \/ Fetch \/ Derive \/ OracleCall \/ LlmReturn \/ ReconcileRow \/ Write
  \/ Summarize \/ Rerun

RerunSpec == RerunInit /\ [][NextRerun]_vars

\* The shape of the control state.
TypeOK ==
  /\ pc \in {"fetch", "derive", "decide", "loads", "reconcile", "write", "summary",
             "done"}
  /\ calls \in Nat
  /\ idx \in 0..Len(employees)

\* ------------------------------------------------------------------ claims
\* The notions the claims are stated in.  A value is empty when it is null, an
\* empty string or whitespace only; its text is its trimmed string.
ClaimEmpty(v) == v.k # "str" \/ Strip(v.s) = <<>>
ClaimText(v) == IF v.k = "str" THEN Strip(v.s) ELSE <<>>

\* The oracle returned a JSON object for the current row.
HasDecision == decision \in Decisions

\* Every classification field of the record is non-empty and equal, trimmed,
\* to the decision's.
ClaimStable(rec, d) ==
  \A col \in ClassCols :
    ClaimText(rec[col]) # <<>> /\ ClaimText(rec[col]) = ClaimText(d[col])

\* The step counts the current row as skipped and leads to no write.
SkipsRow ==
  /\ stats' = [stats EXCEPT !.skipped = @ + 1]
  /\ ~needs_update'
  /\ pc' # "write"
  /\ store' = store

\* C1: in one llm_decide call for one row the oracle is invoked at most
\* max_retries + 1 times, whatever mix of transport errors and malformed
\* responses it meets.
C1_CallsBounded == calls <= max_retries + 1

\* C2 as stated: a record whose three classification fields are non-empty and
\* equal to the decision, and whose experience is unchanged or null, is
\* skipped with needs_write false and no store write.
C2_SkipWhenUnchanged ==
  [][(/\ pc = "reconcile"
      /\ HasDecision
      /\ ClaimStable(data, decision)
      /\ \/ calculated_experience = None
         \/ calculated_experience = employees[idx].data["Experience_Years"])
     => SkipsRow]_vars

\* C2 amended: a record whose three classification fields are non-empty and
\* equal to the decision, and for which no experience was computed (join date
\* missing or unparseable), is skipped with needs_write false and no store
\* write.
C2_SkipWhenNoExperience ==
  [][(/\ pc = "reconcile"
      /\ HasDecision
      /\ ClaimStable(data, decision)
      /\ calculated_experience = None)
     => SkipsRow]_vars

\* A row with an untrimmed but equal value has just been skipped.
C2_Witness ==
  /\ pc \in {"derive", "summary"}
  /\ HasDecision
  /\ ClaimStable(data, decision)
  /\ data["Designation"] # decision["Designation"]
  /\ calculated_experience = None
  /\ DOMAIN updates = {}
  /\ ~needs_update
  /\ result = "none"
  /\ stats.skipped >= 1

\* A classification value staged for the row is outside its enumeration.
InvalidStaged(upd) ==
  \E col \in ClassCols \cap DOMAIN upd : upd[col].s \notin DROPDOWNS[col]

\* C3: if a staged Department, Designation or Salary_Band is outside its
\* enumeration, the row update fails as a whole: the store keeps every prior
\* value and the row is counted as failed.
C3_InvalidValueFailsWholeRow ==
  [][(pc = "write" /\ InvalidStaged(updates))
     => /\ store' = store
        /\ stats' = [stats EXCEPT !.failed = @ + 1]
        /\ result' # "updated"]_vars

\* The tool has just rejected an update that also staged the experience.
C3_Witness ==
  /\ result = "error"
  /\ InvalidStaged(updates)
  /\ "Experience_Years" \in DOMAIN updates
  /\ stats.failed >= 1
  /\ store[row_id + 1]["Is_Processed"] # Str(<<"Yes">>)

\* The three classification fields of the decision are members of their
\* enumerations.
ValidDecision(d) ==
  \A col \in ClassCols :
    d[col].k = "str" /\ Strip(d[col].s) \in DROPDOWNS[col]

\* C4: a row is written and counted as success only if the decision's
\* Department, Designation and Salary_Band are each a non-empty member of
\* their enumeration.
C4_OnlyValidDecisionAccepted ==
  result = "updated" => (HasDecision /\ ValidDecision(decision))

\* The claim's cases for one classification column of the current row.
FillCase(col) ==
  ClaimEmpty(data[col]) /\ ClaimText(decision[col]) # <<>>

OverrideCase(col) ==
  /\ ~ClaimEmpty(data[col])
  /\ ClaimText(decision[col]) # <<>>
  /\ ClaimText(data[col]) # ClaimText(decision[col])

NoChangeCase(col) ==
  \/ ~ClaimEmpty(data[col]) /\ ClaimText(data[col]) = ClaimText(decision[col])
  \/ ClaimText(decision[col]) = <<>>

\* The reconcile step stages the decision's trimmed value for the column and
\* marks the row for write.
StagesDecision(col) ==
  /\ col \in DOMAIN updates'
  /\ updates'[col] = Str(ClaimText(decision[col]))
  /\ needs_update'

\* C5: fill case - for each classification column independently, if the
\* record's current value is empty and the decision's trimmed value is not,
\* the decision value is staged and needs_write becomes true.
C5_FillStages ==
  [][(pc = "reconcile" /\ HasDecision)
     => \A col \in ClassCols : FillCase(col) => StagesDecision(col)]_vars

\* An empty Department has been filled with the trimmed decision value while
\* Designation, which had a value, was not in the fill case.
C5_Witness ==
  /\ pc = "write"
  /\ HasDecision
  /\ FillCase("Department")
  /\ updates["Department"] = Str(<<"Web">>)
  /\ needs_update
  /\ ~FillCase("Designation")

\* C6: override case - for each classification column independently, if the
\* current and the decision value are both non-empty and differ after
\* trimming (case-sensitive), the decision value is staged and needs_write
\* becomes true.
C6_OverrideStages ==
  [][(pc = "reconcile" /\ HasDecision)
     => \A col \in ClassCols : OverrideCase(col) => StagesDecision(col)]_vars

\* Junior has been overwritten by Senior in the staged updates.
C6_Witness ==
  /\ pc = "write"
  /\ HasDecision
  /\ data["Designation"] = Str(<<"Junior">>)
  /\ decision["Designation"] = Str(<<"Senior">>)
  /\ updates["Designation"] = Str(<<"Senior">>)
  /\ needs_update

\* C7: no-change case - a column whose current value is non-empty and equal
\* (trimmed) to the decision value, or whose decision value is empty, is not
\* staged and does not by itself set needs_write; a staged column holds the
\* decision's value for that same column.
C7_NoChangeNotStaged ==
  [][(pc = "reconcile" /\ HasDecision)
     => /\ \A col \in ClassCols :
             NoChangeCase(col) => col \notin DOMAIN updates'
        /\ needs_update' =>
             (needs_update \/ \E col \in ClassCols : ~NoChangeCase(col))
        /\ \A col \in ClassCols \cap DOMAIN updates' :
             updates'[col] = Str(ClaimText(decision[col]))]_vars

\* C8: whenever a non-null experience is computed from the join date,
\* Experience_Years is staged and needs_write is true, whether or not the
\* value equals the stored Experience_Years.
C8_ExperienceAlwaysStaged ==
  (pc \in {"decide", "loads", "reconcile", "write"}) =>
    /\ employees[idx].data["DOJ"].k = "iso" => calculated_experience # None
    /\ calculated_experience # None =>
         /\ "Experience_Years" \in DOMAIN updates
         /\ updates["Experience_Years"] = calculated_experience
         /\ needs_update

\* The computed experience equals the stored one and is about to be written.
C8_Witness ==
  /\ pc = "write"
  /\ calculated_experience # None
  /\ calculated_experience = employees[idx].data["Experience_Years"]
  /\ updates["Experience_Years"] = calculated_experience
  /\ DOMAIN updates = {"Experience_Years"}

\* C9: every successful row write sets, in the same rewrite, Is_Processed =
\* "Yes", AI_Decision_Reason = the decision's Reason, Confidence_Score = the
\* decision's Confidence, Last_Processed_On = the current timestamp, and the
\* staged fields, on the addressed row.
C9_WriteSetsAuditAndStaged ==
  [][(pc = "write" /\ result' = "updated")
     => LET row == store'[row_id + 1]
        IN /\ row["Is_Processed"] = Str(<<"Yes">>)
           /\ decision["Reason"].k = "str" =>
                row["AI_Decision_Reason"] = decision["Reason"]
           /\ decision["Reason"] = Missing =>
                row["AI_Decision_Reason"] = Str(<<>>)
           /\ decision["Confidence"].k = "num" =>
                row["Confidence_Score"] = decision["Confidence"]
           /\ decision["Confidence"] = Missing =>
                row["Confidence_Score"] = Num(0)
           /\ row["Last_Processed_On"] = Ts(now)
           /\ \A col \in DOMAIN updates : row[col] = updates[col]]_vars

\* C10: a failure of row k is counted exactly once and the loop goes on with
\* row k + 1 (or ends normally after the last row); after a successful fetch
\* the run reaches the summary with every row accounted for.
C10_FailureIsolation ==
  /\ [][stats'.failed # stats.failed
        => /\ stats' = [stats EXCEPT !.failed = @ + 1]
           /\ exit' # "raise"
           /\ IF idx < Len(employees)
                THEN pc' = "derive" /\ idx' = idx + 1
                ELSE pc' = "summary" /\ idx' = idx]_vars
  /\ (pc = "derive" /\ idx = 1)
       ~> (/\ pc = "done"
           /\ exit = "return"
           /\ idx = Len(employees)
           /\ summary.total = Len(employees)
           /\ summary.success + summary.failed + summary.skipped
                = summary.total)

\* The first row failed and the last row was then written.
C10_Witness ==
  /\ pc = "done"
  /\ summary.total >= 2
  /\ summary.failed >= 1
  /\ store[1]["Last_Processed_On"] = None
  /\ row_id = Len(employees) - 1
  /\ result = "updated"

\* C11: if the fetch stage fails (the tool call returns an error result or
\* raises), run_agent processes zero rows and ends by propagating a fatal
\* error after the summary; it does not return normally.
C11_FetchFailureIsFatal ==
  [][(pc = "fetch" /\ store # <<>> /\ employees' = <<>>)
     => /\ exit' = "raise"
        /\ pc' = "summary"
        /\ stats'.total = 0]_vars

\* C12: on every execution the summary is eventually logged, exactly once,
\* after normal completion, after the early exit with zero rows and after a
\* fatal error, and it reports the counters as they stood at that point.
C12_SummaryAlwaysOnce ==
  /\ <>(pc = "done")
  /\ [](pc = "done" => summary = stats)
  /\ [][summary' # summary
        => (pc = "summary" /\ summary = None /\ summary' = stats)]_vars
  /\ [][pc = "done" => pc' = "done"]_vars

\* The summary was logged after a fatal error of the fetch stage.
C12_Witness ==
  /\ pc = "done"
  /\ exit = "raise"
  /\ store # <<>>
  /\ summary = [total |-> 0, success |-> 0, failed |-> 0, skipped |-> 0]

\* The second run has reached the reconcile step of a row for which the oracle
\* returned, in the first run, the decision it returns now.
SecondRunSameDecision ==
  /\ run = 2
  /\ idx \in DOMAIN memo
  /\ HasDecision
  /\ memo[idx].decision = decision

\* The reconcile step stages none of the classification fields; the
\* experience, when computed, stays staged.
StagesOnlyExperience ==
  /\ \A col \in ClassCols : col \notin DOMAIN updates'
  /\ calculated_experience # None => "Experience_Years" \in DOMAIN updates'

\* C13 as stated: when the agent is run twice in succession on an unchanged
\* store with the same decision per row, the second run stages none of
\* Department, Designation, Salary_Band for any row; only Experience_Years
\* (when computable) is re-staged.
C13_SecondRunStagesNothing ==
  [][(pc = "reconcile" /\ SecondRunSameDecision) => StagesOnlyExperience]_vars

\* C13 amended: the same, for every row that the first run wrote successfully
\* or skipped; a row whose write failed in the first run is staged again.
C13_SecondRunStagesNothingAfterSuccess ==
  [][(/\ pc = "reconcile"
      /\ SecondRunSameDecision
      /\ memo[idx].outcome \in {"success", "skipped"})
     => StagesOnlyExperience]_vars

\* The first run set the row to Web / Senior / L2 (no initial row holds these
\* values); the second run, with the same decision, stages the experience only.
C13_Witness ==
  /\ run = 2
  /\ pc = "write"
  /\ SecondRunSameDecision
  /\ memo[idx].outcome = "success"
  /\ decision["Department"] = Str(<<"Web">>)
  /\ decision["Designation"] = Str(<<"Senior">>)
  /\ data["Department"] = Str(<<"Web">>)
  /\ data["Designation"] = Str(<<"Senior">>)
  /\ DOMAIN updates = {"Experience_Years"}

\* The row at position i is marked as processed.
Processed(file, i) == i \in DOMAIN file /\ file[i]["Is_Processed"] = Str(<<"Yes">>)

\* C14: once a row's Is_Processed is "Yes", it is "Yes" in every later store
\* state reached by apply_employee_update calls (those of agent runs and any
\* other, successful or failing) and update_experience calls, as long as
\* reset_processed_flag is not invoked.
C14_ProcessedStaysYes ==
  [][call'.tool # "reset_processed_flag"
     => \A i \in DOMAIN store : Processed(store, i) => Processed(store', i)]_vars

\* A first call marked the row (the backup taken before it shows the row
\* unmarked); a second, successful call on the same row passed Is_Processed =
\* "No" in its updates and the row is still marked.
C14_Witness ==
  /\ call.tool = "apply_employee_update"
  /\ call.status = "updated"
  /\ "Is_Processed" \in DOMAIN call.upd
  /\ call.upd["Is_Processed"] = Str(<<"No">>)
  /\ DOMAIN backups = {1, 2}
  /\ ~Processed(backups[1], call.rid + 1)
  /\ Processed(backups[2], call.rid + 1)
  /\ Processed(store, call.rid + 1)

\* C15: when the oracle keeps failing (transport error or unparseable output)
\* through all allowed retries, llm_decide raises and returns no decision;
\* the agent counts the row as failed, stages nothing further and makes no
\* store write or tool call for it.
C15_OracleFailureFailsRow ==
  [][(pc = "decide" /\ pc' \notin {"decide", "loads"})
     => /\ calls' >= max_retries + 1
        /\ decision' = None
        /\ stats' = [stats EXCEPT !.failed = @ + 1]
        /\ updates' = updates
        /\ ClassCols \cap DOMAIN updates' = {}
        /\ store' = store
        /\ result' = "none"
        /\ pc' \in {"derive", "summary"}]_vars

\* llm_decide has just raised after its retries: the row is counted as
\* failed and the experience staged before the call was not written.
C15_Witness ==
  /\ pc \in {"derive", "summary"}
  /\ stack = <<>>
  /\ calls >= max_retries + 1
  /\ decision = None
  /\ stats.failed >= 1
  /\ "Experience_Years" \in DOMAIN updates
  /\ result = "none"
  /\ store[row_id + 1]["Last_Processed_On"] = None
  /\ store[row_id + 1]["Experience_Years"] = None

\* The outcome of a call of a mutating tool on the present workbook, with and
\* without its backup made.
ToolOutcome(tool, rid, upd, bak_ok, save_ok) ==
  CASE tool = "apply_employee_update" ->
         update_employee_row(store, backups, rid, upd, Str(<<"manual">>),
           Num(5), now, bak_ok, save_ok)
    [] tool = "update_experience" ->
         update_experience_from_doj(store, backups, now, bak_ok, save_ok)
    [] OTHER ->
         reset_processed_flag_for_reprocessing(store, backups, now, bak_ok,
           save_ok)

\* The outcome of the call does not depend on whether its backup could be
\* made: same status, same workbook.
BackupIndependent(tool, rid, upd) ==
  \A save_ok \in BOOLEAN :
    LET a == ToolOutcome(tool, rid, upd, FALSE, save_ok)
        b == ToolOutcome(tool, rid, upd, TRUE, save_ok)
    IN a.status = b.status /\ a.file = b.file

\* C16: with backup enabled, in every mutating store operation
\* (update_employee_row, update_experience_from_doj,
\* reset_processed_flag_for_reprocessing) the backup is attempted before the
\* store is rewritten (a backup made holds the store as it was before the
\* call, a failed one leaves the backup directory as it was), and a failed
\* backup never prevents or fails the write (the call ends as it would have
\* with the backup made).
C16_BackupBeforeWrite ==
  [][(BACKUP_ENABLED /\ call'.tool # "none" /\ now' # now)
        => IF call'.backup
             THEN now \in DOMAIN backups' /\ backups'[now] = store
             ELSE /\ backups' = backups
                  /\ BackupIndependent(call'.tool, call'.rid, call'.upd)]_vars

\* apply_employee_update rewrote the row although no backup could be made.
C16_Witness ==
  /\ call.tool = "apply_employee_update"
  /\ ~call.backup
  /\ call.status = "updated"
  /\ backups = <<>>
  /\ call.upd = [Department |-> Str(<<"AI">>), Is_Processed |-> Str(<<"No">>)]
  /\ store[call.rid + 1]["Department"] = Str(<<"AI">>)
  /\ store[call.rid + 1]["Last_Processed_On"] = Ts(1)

\* The join date of the fetched record is missing or is text that does not
\* parse as a date.
DojUnusable(rec) == rec["DOJ"].k \notin {"iso", "date"}

\* C17: when the join date is missing or unparseable the row is not failed
\* for that reason: no Experience_Years is staged, needs_write is not set by
\* the experience step, the record handed to the oracle carries the stored
\* Experience_Years (possibly null), and processing goes on to the decide
\* stage.
C17_BadDojFallsBack ==
  [][(pc = "derive" /\ DojUnusable(employees[idx].data))
     => /\ pc' = "decide"
        /\ stats' = stats
        /\ calculated_experience' = None
        /\ DOMAIN updates' = {}
        /\ ~needs_update'
        /\ data' = employees[idx].data]_vars

\* A record with an unparseable join date and no stored experience has
\* reached the reconcile stage with a decision.
C17_Witness ==
  /\ pc = "reconcile"
  /\ HasDecision
  /\ employees[idx].data["DOJ"] = Str(<<"soon">>)
  /\ calculated_experience = None
  /\ data["Experience_Years"] = None
  /\ DOMAIN updates = {}
  /\ ~needs_update
  /\ stats.failed = 0

\* n tenths of a year is days / 365.25 rounded to one decimal place: no other
\* number of tenths is nearer (n / 10 and days * 4 / 1461 differ by at most
\* half a tenth).
IsRounded(n, days) ==
  LET diff == 1461 * n - 40 * days
  IN 2 * diff <= 1461 /\ 2 * (0 - diff) <= 1461

\* C18: for every parsed join date the experience computed by the agent and
\* the one stored by update_experience_from_doj are both
\* round((today - join_date).days / 365.25, 1), hence equal for the same date
\* and day; a missing or unparseable join date gives null in the agent and no
\* change in the tool.
C18_ExperienceAgrees ==
  LET tool_ran == call.tool = "update_experience" /\ call.status = "success"
  IN /\ pc = "decide" =>
          IF store[idx]["DOJ"].k = "date"
            THEN /\ calculated_experience.k = "num"
                 /\ IsRounded(calculated_experience.n, store[idx]["DOJ"].days)
            ELSE calculated_experience = None
     /\ tool_ran =>
          \A i \in DOMAIN store :
            store[i]["DOJ"].k = "date" =>
              /\ store[i]["Experience_Years"].k = "num"
              /\ IsRounded(store[i]["Experience_Years"].n,
                           store[i]["DOJ"].days)
     /\ (pc = "decide" /\ tool_ran) =>
          store[idx]["Experience_Years"] =
            IF calculated_experience # None THEN calculated_experience
            ELSE employees[idx].data["Experience_Years"]

\* The agent fetched a record with no stored experience and a join date 500
\* days back and computed 1.4; the tool then stored 1.4 for it.
C18_Witness ==
  /\ pc = "decide"
  /\ call.tool = "update_experience"
  /\ call.status = "success"
  /\ store[1]["DOJ"] = Date(500)
  /\ employees[1].data["Experience_Years"] = None
  /\ calculated_experience = Num(14)
  /\ store[1]["Experience_Years"] = Num(14)

\* C19: Reason and Confidence are best-effort: a decision whose three
\* classification fields are valid is sent to the store whatever its Reason
\* and Confidence are (missing, null, non-numeric, out of [0,1]); the row is
\* counted as failed only if the store rejects or cannot save the update.
C19_ConfidenceNeverFailsRow ==
  [][(/\ pc = "write"
      /\ HasDecision
      /\ ValidDecision(decision)
      /\ stats'.failed # stats.failed)
     => result' = "error"]_vars

\* Writer w's call returned "updated", the other writer did not address the
\* same row, and the store's row does not hold what w wrote.
Lost(w) ==
  /\ procs[w].status = "updated"
  /\ \A v \in Writers \ {w} : procs[v].rid # procs[w].rid
  /\ \/ store[procs[w].rid + 1]["AI_Decision_Reason"] # WriterReason(w)
     \/ store[procs[w].rid + 1]["Department"] # WriterUpdates(w)["Department"]
     \/ ~Processed(store, procs[w].rid + 1)

\* C20: update_employee_row is a non-atomic read-entire-store, mutate one
\* row, rewrite-entire-store sequence with no locking: an update is lost only
\* when another call read the store before it was saved and rewrote the
\* store after (with one writer at a time, none is lost); with two
\* interleaved calls on different rows the loss is reachable (the witness).
C20_LostUpdateOnlyWhenInterleaved ==
  \A w \in Writers :
    Lost(w) => \E v \in Writers \ {w} :
                 procs[v].stale /\ procs[v].status = "updated"

\* Both calls, on different rows, returned "updated"; the store holds writer
\* 2's row and has lost writer 1's.
C20_Witness ==
  /\ procs[1].at = "done"
  /\ procs[2].at = "done"
  /\ procs[1].status = "updated"
  /\ procs[2].status = "updated"
  /\ procs[1].rid # procs[2].rid
  /\ Lost(1)
  /\ ~Lost(2)
  /\ store[procs[2].rid + 1]["AI_Decision_Reason"] = WriterReason(2)

\* The rows of the two files other than the one at position i are the same
\* to a reader, in number, order and every field.
SameOtherRows(f, g, i) ==
  /\ Len(g) = Len(f)
  /\ \A j \in DOMAIN f : j # i => read_excel(g)[j] = read_excel(f)[j]

\* Every row_id of the run's one fetch addresses, in the store as it is now,
\* the employee record it was fetched with.
FetchedIdsAddressSameRecord ==
  \A k \in DOMAIN employees :
    /\ employees[k].row_id + 1 \in DOMAIN store
    /\ store[employees[k].row_id + 1]["Emp_ID"] = employees[k].data["Emp_ID"]

\* C21: update_employee_row(row_id, ...) changes only the row at position
\* row_id (every other row keeps all its field values, the number and the
\* order of the rows are unchanged, the row written is still the same
\* employee), hence with the agent as the single writer every row_id of the
\* initial fetch still addresses the same employee record at the time of its
\* write, after any number of earlier writes of the run.
C21_WriteChangesOnlyItsRow ==
  /\ [][/\ SameOtherRows(store, store', row_id + 1)
        /\ \A j \in DOMAIN store : store'[j]["Emp_ID"] = store[j]["Emp_ID"]]_vars
  /\ [](FetchedIdsAddressSameRecord
          /\ (pc = "write" => store[row_id + 1]["Emp_ID"] = data["Emp_ID"]))

\* The second row was written after the first: the first row still holds
\* what its own write stored (read back: its empty reason is a null now).
C21_Witness ==
  /\ Len(store) = 2
  /\ stats.success = 2
  /\ row_id = 1
  /\ result = "updated"
  /\ store[1]["Last_Processed_On"] = Ts(1)
  /\ store[2]["Last_Processed_On"] = Ts(2)
  /\ store[1]["AI_Decision_Reason"] = None
  /\ store[1]["Confidence_Score"] = Num(0)
  /\ store[1]["Emp_ID"] = Num(1)
  /\ store[2]["Emp_ID"] = Num(2)

\* The rows whose iteration of the loop has ended.
Finished == stats.success + stats.failed + stats.skipped

\* The row at idx is between its derivation and the end of its iteration.
InRow == pc \in {"decide", "loads", "reconcile", "write"}

\* The steps of the state machine of a run: Fetching, then per row Deriving,
\* Deciding (one or more oracle calls, then the parsed answer), Reconciling,
\* Writing or Skipping, then Summarizing; a row that fails leaves its
\* sequence for the next row.
PhaseOrder ==
  CASE pc = "fetch" -> pc' \in {"derive", "summary"}
    [] pc = "derive" -> pc' = "decide"
    [] pc = "decide" -> pc' \in {"decide", "loads", "derive", "summary"}
    [] pc = "loads" -> pc' = "reconcile"
    [] pc = "reconcile" -> pc' \in {"write", "derive", "summary"}
    [] pc = "write" -> pc' \in {"derive", "summary"}
    [] pc = "summary" -> pc' = "done"
    [] OTHER -> FALSE

\* C22: within a run the rows are processed one at a time in ascending
\* row_id order, each through Deriving, Deciding, Reconciling and then Writing
\* or Skipping: the oracle is never called for a row before its experience
\* derivation, no oracle call or write for row k+1 starts before row k is
\* finished, and each row gets at most one store write per run.
C22_OneRowAtATime ==
  /\ [][PhaseOrder]_vars
  /\ [][idx' # idx => /\ idx' = idx + 1
                      /\ pc' = "derive"
                      /\ employees'[idx'].row_id = idx' - 1]_vars
  /\ [](InRow => /\ row_id = employees[idx].row_id
                 /\ Finished = idx - 1
                 /\ calculated_experience # None
                      => updates["Experience_Years"] = calculated_experience)
  /\ [][calls' # calls \/ stack' # stack => (pc = "derive" \/ InRow)]_vars
  /\ [][store' # store
          => /\ pc = "write"
             /\ store[row_id + 1]["Last_Processed_On"] = None
             /\ \A j \in DOMAIN store :
                  store'[j]["Last_Processed_On"] # store[j]["Last_Processed_On"]
                    => j = idx]_vars

\* The second row is about to be written, after the first one was.
C22_Witness ==
  /\ pc = "write"
  /\ idx = 2
  /\ stats.success = 1
  /\ store[1]["Last_Processed_On"] = Ts(1)
  /\ store[2]["Last_Processed_On"] = None

\* C23: when apply_employee_update returns the status "updated", the stored
\* row holds, for every (column, value) pair of the updates the agent sent,
\* exactly that value in that column, a computed Experience_Years of 0.0
\* included: nothing reported in updates_applied is left unapplied.
C23_UpdatedMeansApplied ==
  [][(pc = "write" /\ result' = "updated")
       => \A col \in DOMAIN updates :
            read_excel(store')[row_id + 1][col] = updates[col]]_vars

\* One of the three counters is one more, everything else is as before.
CountsOne(before, after) ==
  \E c \in {"success", "failed", "skipped"} :
    after = [before EXCEPT ![c] = @ + 1]

\* C24: at every point of the per-row loop success + failed + skipped is
\* the number of rows fully processed so far; each row adds one to exactly
\* one of the three counters exactly once; and at the summary of a run whose
\* fetch succeeded success + failed + skipped = total.
C24_CountersAccountForRows ==
  /\ [](pc \in {"derive", "decide", "loads", "reconcile", "write"}
          => /\ Finished = idx - 1
             /\ stats.total = Len(employees))
  /\ [][(pc \in {"derive", "decide", "loads", "reconcile", "write"})
          => IF idx' # idx \/ pc' = "summary"
               THEN CountsOne(stats, stats')
               ELSE stats' = stats]_vars
  /\ []((pc \in {"summary", "done"} /\ exit = "return")
          => /\ Finished = stats.total
             /\ stats.total = Len(employees)
             /\ (pc = "done" => summary = stats))

\* A run of two rows ended with one row written and one skipped.
C24_Witness ==
  /\ pc = "done"
  /\ exit = "return"
  /\ summary.total = 2
  /\ summary.success = 1
  /\ summary.skipped = 1
  /\ summary.failed = 0

\* The columns the agent stages values for.
AgentCols == {"Experience_Years"} \cup ClassCols

\* C25: the empty-column scan is observability only: the updates the agent
\* sends for a row have keys only from Experience_Years, Department,
\* Designation, Salary_Band (no identity, status, DOJ, Skill_Level or audit
\* column is ever staged), and the scan never changes needs_update, which is
\* true exactly when one of those four is staged.
C25_ScanStagesNothing ==
  /\ [](/\ DOMAIN updates \subseteq AgentCols
        /\ needs_update <=> DOMAIN updates # {})
  /\ [][(pc = "reconcile" /\ decision # NonDict)
          => /\ updates' = Reconcile(data, updates, decision)
             /\ needs_update' =
                  (needs_update
                     \/ \E col \in ClassCols : Staged(data, decision, col))
             /\ (pc' = "write") <=> needs_update']_vars

\* A row whose Skill_Level the scan logged as empty was skipped, and another
\* such row goes to its write with only the experience staged.
C25_Witness ==
  /\ pc = "write"
  /\ stats.skipped = 1
  /\ employees[1].data["Skill_Level"] = None
  /\ "Skill_Level" \in ScanLogged(data, updates)
  /\ DOMAIN updates = {"Experience_Years"}

\* C26: every successful create_backup produces a backup file distinct from
\* all backups made earlier: no earlier backup is overwritten, whatever the
\* time between two calls (two writes within the same second included), so
\* the backup taken before the first write of a run still holds the pre-run
\* store (no row of it carries a processing timestamp) at the end of the run.
C26_BackupsNeverOverwritten ==
  /\ [][\A n \in DOMAIN backups :
          n \in DOMAIN backups' /\ backups'[n] = backups[n]]_vars
  /\ [](\A n \in DOMAIN backups :
          n = 1 => \A i \in DOMAIN backups[n] :
                     backups[n][i]["Last_Processed_On"] = None)

\* The positions of the rows of the data frame that are not processed: all
\* of them when the sheet has no Is_Processed column.
UnprocessedPositions(df) ==
  {i \in DOMAIN df :
     "Is_Processed" \in DOMAIN df[i] => df[i]["Is_Processed"] # Str(<<"Yes">>)}

\* C27: fetch_unprocessed returns exactly the rows whose Is_Processed is not
\* "Yes" (a null counts as unprocessed; all rows when the column is absent),
\* in store order, each with its position in the full unfiltered store as
\* row_id, so apply_employee_update(row_id) on the unchanged store addresses
\* the record that was returned.
C27_UnprocessedRowsByPosition ==
  /\ [](pc = "write"
          => LET df == read_excel(store)
             IN /\ {e.row_id + 1 : e \in {employees[k] : k \in DOMAIN employees}}
                     = UnprocessedPositions(df)
                /\ \A k \in DOMAIN employees :
                     /\ k > 1 => employees[k - 1].row_id < employees[k].row_id
                     /\ \A c \in DOMAIN df[employees[k].row_id + 1] :
                          employees[k].data[c] =
                            convert_to_json_serializable(
                              df[employees[k].row_id + 1][c]))
  /\ [][(pc = "write" /\ call'.status = "updated")
          => /\ store'[call'.rid + 1]["Emp_ID"] = employees[idx'].data["Emp_ID"]
             /\ store'[call'.rid + 1]["Last_Processed_On"] = Ts(now)
             /\ \A j \in DOMAIN store :
                  j # call'.rid + 1
                    => store'[j]["Last_Processed_On"]
                         = store[j]["Last_Processed_On"]]_vars

\* The only row fetched was the second of the store (the first is
\* processed), and the update addressed by its row_id 1 was made.
C27_Witness ==
  /\ pc = "fetch"
  /\ Len(employees) = 1
  /\ employees[1].row_id = 1
  /\ employees[1].data["Emp_ID"] = Num(2)
  /\ call.status = "updated"
  /\ call.rid = 1
  /\ store[2]["AI_Decision_Reason"] = Str(<<"manual">>)
  /\ store[1]["AI_Decision_Reason"] = None
  /\ store[1]["Is_Processed"] = Str(<<"Yes">>)

\* Row ids that address no row of the file: negative, or not less than the
\* number of rows.
BadRowIds(file) == {-2, -1, Len(file), Len(file) + 1}

\* C28: update_employee_row called with a row_id that is negative or not less
\* than the current number of rows fails with an error, rewrites nothing and
\* leaves every row of the store unchanged; the agent counts that row as
\* failed and continues with the next one.
C28_BadRowIdFailsRow ==
  /\ [](\A rid \in BadRowIds(store), upd \in ToolUpdates \cup {updates} :
          LET r == update_employee_row(store, backups, rid, upd,
                     Str(<<"manual">>), Num(5), now, TRUE, TRUE)
          IN r.status = "error" /\ r.file = store)
  /\ [][(pc = "write" /\ now' # now /\ row_id >= Len(store))
          => /\ result' = "error"
             /\ store' = store
             /\ stats' = [stats EXCEPT !.failed = @ + 1]
             /\ exit' # "raise"
             /\ IF idx < Len(employees)
                  THEN pc' = "derive" /\ idx' = idx + 1
                  ELSE pc' = "summary" /\ idx' = idx]_vars

\* The write of the first row was refused, the sheet having lost all its
\* rows since the fetch, and the agent is at the second row.
C28_Witness ==
  /\ pc = "derive"
  /\ idx = 2
  /\ row_id = 0
  /\ Len(store) = 0
  /\ now = 2
  /\ result = "error"
  /\ stats.failed = 1
  /\ ~InvalidStaged(updates)

====
